---- MODULE Spec2Model ----
(***************************************************************************)
(* Model of timestamp.py: the Stamp registry (a singleton per name kept in *)
(* the class-level _stamps_cache), the FunctionTimeFrame samples, the      *)
(* averaging/report helpers and the report() decorator.                    *)
(*                                                                         *)
(* Encoding of Python values:                                              *)
(*   - str values are TLA+ strings; None is the string NoName ("#None");   *)
(*   - the int keys 0 and -1 of FunctionTimeFrame.time_stamps are the      *)
(*     strings EntryKey ("#0") and ExitKey ("#-1"); values starting with   *)
(*     "#" are therefore not Python str (IsStr);                           *)
(*   - a dict is a function whose DOMAIN is its key set;                   *)
(*   - the keys of Stamp._time_stamps are tuples: the str key d is <<d>>   *)
(*     and the Python tuple (f, d) is <<f, d>>;                            *)
(*   - a Stamp instance is its index in heap (object identity);           *)
(*   - time.time() is a strictly increasing integer clock: every call      *)
(*     returns the next tick, and MaxTime ticks bound a run;               *)
(*   - a float average sum/len is the exact pair num / n.                  *)
(***************************************************************************)
EXTENDS Integers, Sequences, FiniteSets, TLC

VARIABLES
    cache,      \* Stamp._stamps_cache: name -> instance
    heap,       \* the Stamp instances ever allocated, by identity
    frames,     \* the active wrapper() calls of the decorator, outermost first
    entered,    \* history: per instance, the enter_function calls since
                \* __init__ that no exit_function call has answered yet
    raised,     \* per instance: the decorated functions of which a call has
                \* raised since the last __init__
    now         \* the last value time.time() returned

vars == <<cache, heap, frames, entered, raised, now>>

----------------------------------------------------------------------------
\* Bounds of the exploration
MaxTime == 4
MaxDepth == 3

\* The clock readings of a run of nested decorated calls
MaxReads == 5

\* The clock readings of a run with several registries
MaxRegistryReads == 3

NoName == "#None"
EntryKey == "#0"
ExitKey == "#-1"

Names == {"", "a"}
FuncNames == {"", "f", "g"}
StrDescs == {"start", "end"}
NonStrDescs == {EntryKey, NoName}
Descs == StrDescs \cup NonStrDescs

\* The decorated functions of the program: <<__qualname__, stamp_name, deltas>>
Decorated == {<<"f", NoName, <<"start", "end">>>>, <<"g", "a", <<>>>>}

----------------------------------------------------------------------------
\* Python helpers

\* bool(x) of a str or None
Truthy(x) == x \notin {NoName, ""}

\* isinstance(x, str)
IsStr(x) == x \notin NonStrDescs /\ x # ExitKey

\* d.get(k, default)
Get(d, k, default) == IF k \in DOMAIN d THEN d[k] ELSE default

\* d[k] = v
Put(d, k, v) == [x \in DOMAIN d \cup {k} |-> IF x = k THEN v ELSE d[x]]

EmptyDict == [x \in {} |-> <<>>]

RECURSIVE SumSeq(_)
SumSeq(s) == IF s = <<>> THEN 0 ELSE Head(s) + SumSeq(Tail(s))

\* time.time(): the value the next call returns
Clock == now + 1

\* The value a call returns: kind tells the shape, the other fields its parts
Result(kind, who, s, e, n, num, out) ==
    [kind |-> kind, who |-> who, s |-> s, e |-> e, n |-> n, num |-> num, out |-> out]

None == Result("None", "", "", "", 0, 0, {})
Instance(id) == Result("Stamp", "", "", "", id, 0, {})
EmptyList == Result("[]", "", "", "", 0, 0, {})

Outcome(exc, ret) == [exc |-> exc, ret |-> ret]

----------------------------------------------------------------------------
\* calc_averages with `len(avgs) > 1` written `len(avgs) > 0`
calc_averages_AverageOfOne(start_times, end_times, start_desc, end_desc, func_name) ==
    IF Len(start_times) = Len(end_times) /\ Len(start_times) > 0
    THEN LET avgs == [i \in 1..Len(start_times) |-> end_times[i] - start_times[i]]
         IN  IF Truthy(func_name)
             THEN Result("REPORT_FUNC_AVG", func_name, "", "", Len(avgs), SumSeq(avgs), {})
             ELSE Result("REPORT_DIFF_AVG", "", start_desc, end_desc, Len(avgs), SumSeq(avgs), {})
    ELSE EmptyList

\* calc_averages
calc_averages(start_times, end_times, start_desc, end_desc, func_name) ==
    IF Len(start_times) = Len(end_times)
    THEN LET avgs == [i \in 1..Len(start_times) |-> end_times[i] - start_times[i]]
         IN  IF Truthy(func_name)
             THEN IF Len(avgs) > 1
                  THEN Result("REPORT_FUNC_AVG", func_name, "", "", Len(avgs), SumSeq(avgs), {})
                  ELSE IF Len(avgs) = 1
                  THEN Result("REPORT_FUNC_VAL", func_name, "", "", 1, avgs[1], {})
                  ELSE EmptyList
             ELSE IF Len(avgs) > 1
                  THEN Result("REPORT_DIFF_AVG", "", start_desc, end_desc, Len(avgs), SumSeq(avgs), {})
                  ELSE IF Len(avgs) = 1
                  THEN Result("REPORT_DIFF_VAL", "", start_desc, end_desc, 1, avgs[1], {})
                  ELSE EmptyList
    ELSE EmptyList

----------------------------------------------------------------------------
\* FunctionTimeFrame

FunctionTimeFrame(func_name) == [name |-> func_name, time_stamps |-> EmptyDict]

TF_stamp(tf, key, t) ==
    [tf EXCEPT !.time_stamps = Put(@, key, Append(Get(@, key, <<>>), t))]

times_run(tf) == Len(Get(tf.time_stamps, ExitKey, <<>>))

\* average_runtime with the sums swapped: sum(start_times) - sum(end_times)
average_runtime_SwappedSums(tf) ==
    LET start_times == Get(tf.time_stamps, EntryKey, <<>>)
        end_times == Get(tf.time_stamps, ExitKey, <<>>)
    IN  IF times_run(tf) = 0
        THEN Outcome("ZeroDivisionError", None)
        ELSE Outcome("", Result("float", "", "", "", times_run(tf),
                                SumSeq(start_times) - SumSeq(end_times), {}))

\* (sum(end_times) - sum(start_times)) / times_run
average_runtime(tf) ==
    LET start_times == Get(tf.time_stamps, EntryKey, <<>>)
        end_times == Get(tf.time_stamps, ExitKey, <<>>)
    IN  IF times_run(tf) = 0
        THEN Outcome("ZeroDivisionError", None)
        ELSE Outcome("", Result("float", "", "", "", times_run(tf),
                                SumSeq(end_times) - SumSeq(start_times), {}))

runtime(tf) ==
    calc_averages(Get(tf.time_stamps, EntryKey, <<>>),
                  Get(tf.time_stamps, ExitKey, <<>>), NoName, NoName, tf.name)

\* FunctionTimeFrame.report: the exception it raises, "" when it returns
TF_report(tf) == average_runtime(tf).exc

----------------------------------------------------------------------------
\* Stamp

\* Stamp.__init__
StampInit(name) ==
    [name |-> name,
     time_stamps |-> EmptyDict,
     func_time_stamps |-> EmptyDict,
     func_stack |-> <<>>,
     func_deltas |-> EmptyDict,
     reported_functions |-> {}]

\* Stamp.__new__: `not cls._stamps_cache.get(name)`; an instance is truthy
CacheMiss(c, name) == name \notin DOMAIN c

add_func_deltas(reg, func_name, deltas) ==
    [reg EXCEPT !.func_deltas = Put(@, func_name, deltas)]

add_reported_function(reg, func_name) ==
    [reg EXCEPT !.reported_functions = @ \cup {func_name}]

\* get_instance handing out the instance created last, whatever the name
get_instance_Latest(c, name) ==
    IF DOMAIN c # {}
    THEN Outcome("", Instance(CHOOSE id \in {c[n] : n \in DOMAIN c} :
                                  \A n \in DOMAIN c : c[n] <= id))
    ELSE Outcome("NoStampException", None)

\* Stamp.get_instance
get_instance(c, name) ==
    IF Truthy(name)
    THEN IF name \in DOMAIN c
         THEN Outcome("", Instance(c[name]))
         ELSE Outcome("NoStampException", None)
    ELSE IF Cardinality(DOMAIN c) = 1
         THEN Outcome("", Instance(c[CHOOSE n \in DOMAIN c : TRUE]))
         ELSE Outcome("", None)

\* Lines 141-147 of enter_function without the test of line 142: the name
\* is pushed whatever the top is
PushAlways(stack, func_name) == Append(stack, func_name)

\* Lines 141-147 of enter_function: the push
Push(stack, func_name) ==
    IF stack # <<>>
    THEN IF stack[Len(stack)] # func_name THEN Append(stack, func_name) ELSE stack
    ELSE Append(stack, func_name)

\* Lines 149-153 of enter_function without lines 152-153: the new timeframe
\* is stamped and dropped
EnterSampleUnregistered(fts, func_name, t) ==
    IF func_name \in DOMAIN fts
    THEN [fts EXCEPT ![func_name] = TF_stamp(@, EntryKey, t)]
    ELSE fts

\* Lines 149-153 of enter_function: the entry sample
EnterSample(fts, func_name, t) ==
    LET func_tf == TF_stamp(Get(fts, func_name, FunctionTimeFrame(func_name)), EntryKey, t)
    IN  Put(fts, func_name, func_tf)

enter_function(reg, func_name, t) ==
    [reg EXCEPT !.func_stack = Push(@, func_name),
                !.func_time_stamps = EnterSample(@, func_name, t)]

\* exit_function reading the top of the stack without popping it
exit_function_NoPop(reg, t) ==
    IF reg.func_stack # <<>>
    THEN LET func_name == reg.func_stack[Len(reg.func_stack)]
         IN  [exc |-> "",
              reg |-> [reg EXCEPT
                  !.func_time_stamps =
                      IF func_name \in DOMAIN @
                      THEN [@ EXCEPT ![func_name] = TF_stamp(@, ExitKey, t)]
                      ELSE @]]
    ELSE [exc |-> "UnboundLocalError", reg |-> reg]

\* exit_function: func_name is unbound when the stack is empty
exit_function(reg, t) ==
    IF reg.func_stack # <<>>
    THEN LET func_name == reg.func_stack[Len(reg.func_stack)]
             popped == SubSeq(reg.func_stack, 1, Len(reg.func_stack) - 1)
         IN  [exc |-> "",
              reg |-> [reg EXCEPT
                  !.func_stack = popped,
                  !.func_time_stamps =
                      IF func_name \in DOMAIN @
                      THEN [@ EXCEPT ![func_name] = TF_stamp(@, ExitKey, t)]
                      ELSE @]]
    ELSE [exc |-> "UnboundLocalError", reg |-> reg]

\* Stamp._stamp
StampGlobal(reg, key, t) ==
    [reg EXCEPT !.time_stamps = Put(@, <<key>>, Append(Get(@, <<key>>, <<>>), t))]

\* Stamp.stamp
stamp(reg, desc, t) ==
    IF ~IsStr(desc)
    THEN [exc |-> "InvalidStampException", reg |-> reg]
    ELSE IF reg.func_stack # <<>>
    THEN LET top == reg.func_stack[Len(reg.func_stack)]
         IN  IF top \in DOMAIN reg.func_time_stamps
             THEN [exc |-> "",
                   reg |-> [reg EXCEPT !.func_time_stamps[top] = TF_stamp(@, desc, t)]]
             ELSE [exc |-> "KeyError", reg |-> reg]
    ELSE [exc |-> "", reg |-> StampGlobal(reg, desc, t)]

func_runtime(reg, func_name) ==
    IF func_name \in DOMAIN reg.func_time_stamps
    THEN runtime(reg.func_time_stamps[func_name])
    ELSE Result("No function exists with this name...", "", "", "", 0, 0, {})

\* difference pairing the samples like zip(): the longer list is cut to the
\* length of the shorter one
difference_Truncating(reg, start, end, func_name) ==
    LET start_times == IF Truthy(func_name)
                       THEN Get(reg.time_stamps, <<func_name, start>>, <<>>)
                       ELSE Get(reg.time_stamps, <<start>>, <<>>)
        end_times == IF Truthy(func_name)
                     THEN Get(reg.time_stamps, <<func_name, end>>, <<>>)
                     ELSE Get(reg.time_stamps, <<end>>, <<>>)
        n == IF Len(start_times) < Len(end_times) THEN Len(start_times) ELSE Len(end_times)
    IN  calc_averages(SubSeq(start_times, 1, n), SubSeq(end_times, 1, n), start, end, NoName)

\* Stamp.difference
difference(reg, start, end, func_name) ==
    LET start_times == IF Truthy(func_name)
                       THEN Get(reg.time_stamps, <<func_name, start>>, <<>>)
                       ELSE Get(reg.time_stamps, <<start>>, <<>>)
        end_times == IF Truthy(func_name)
                     THEN Get(reg.time_stamps, <<func_name, end>>, <<>>)
                     ELSE Get(reg.time_stamps, <<end>>, <<>>)
    IN  calc_averages(start_times, end_times, start, end, NoName)

\* What one report() of a reported function does: "" when it is printed
ReportOne(reg, fname) ==
    IF fname \notin DOMAIN reg.func_time_stamps
    THEN "KeyError"
    ELSE TF_report(reg.func_time_stamps[fname])

\* Stamp.report: the set is iterated in an arbitrary order and the first
\* failing function ends the loop; `printed` are the functions printed.
ReportOutcomes(reg) ==
    LET good == {f \in reg.reported_functions : ReportOne(reg, f) = ""}
        bad == reg.reported_functions \ good
    IN  IF bad = {}
        THEN {Outcome("", Result("None", "", "", "", 0, 0, good))}
        ELSE {Outcome(ReportOne(reg, f), Result("None", "", "", "", 0, 0, printed)) :
                  <<f, printed>> \in bad \X SUBSET good}

----------------------------------------------------------------------------
\* State helpers

Ids == 1..Len(heap)

RECURSIVE CountAll(_, _)
CountAll(d, keys) ==
    IF keys = {} THEN 0
    ELSE LET k == CHOOSE x \in keys : TRUE
         IN  Len(d[k]) + CountAll(d, keys \ {k})

RECURSIVE CountFrames(_, _)
CountFrames(fts, fs) ==
    IF fs = {} THEN 0
    ELSE LET f == CHOOSE x \in fs : TRUE
         IN  CountAll(fts[f].time_stamps, DOMAIN fts[f].time_stamps)
             + CountFrames(fts, fs \ {f})

\* The number of samples a registry holds
SampleCount(reg) ==
    CountAll(reg.time_stamps, DOMAIN reg.time_stamps)
    + CountFrames(reg.func_time_stamps, DOMAIN reg.func_time_stamps)

\* The clock can still be read
CanSample == now < MaxTime

ButLast(s) == SubSeq(s, 1, Len(s) - 1)

----------------------------------------------------------------------------
Init ==
    /\ cache = EmptyDict
    /\ heap = <<>>
    /\ frames = <<>>
    /\ entered = <<>>
    /\ raised = <<>>
    /\ now = 0

\* Stamp(name): __new__ then __init__ on the instance __new__ returned
NewStamp(name) ==
    LET miss == CacheMiss(cache, name)
        id == IF miss THEN Len(heap) + 1 ELSE cache[name]
    IN  /\ cache' = IF miss THEN Put(cache, name, id) ELSE cache
        /\ heap' = IF miss THEN Append(heap, StampInit(name))
                           ELSE [heap EXCEPT ![id] = StampInit(name)]
        /\ entered' = IF miss THEN Append(entered, <<>>)
                              ELSE [entered EXCEPT ![id] = <<>>]
        /\ raised' = IF miss THEN Append(raised, {})
                             ELSE [raised EXCEPT ![id] = {}]
        /\ UNCHANGED <<frames, now>>

\* Stamp.get_instance(name): reads the cache only
GetInstance(name) ==
    \E r \in {get_instance(cache, name)} : UNCHANGED vars

\* ts.enter_function(func_name), called directly
EnterFunction(i, func_name) ==
    /\ CanSample
    /\ heap' = [heap EXCEPT ![i] = enter_function(@, func_name, Clock)]
    /\ now' = Clock
    /\ entered' = [entered EXCEPT ![i] = Append(@, func_name)]
    /\ UNCHANGED <<cache, frames, raised>>

\* ts.exit_function(), called directly; nothing changes when it raises
ExitFunction(i) ==
    LET r == exit_function(heap[i], Clock)
    IN  /\ r.exc = "" => CanSample
        /\ heap' = [heap EXCEPT ![i] = r.reg]
        /\ now' = IF r.exc = "" THEN Clock ELSE now
        /\ entered' = [entered EXCEPT ![i] = ButLast(@)]
        /\ UNCHANGED <<cache, frames, raised>>

\* ts.stamp(desc); nothing changes when it raises
DoStamp(i, desc) ==
    LET r == stamp(heap[i], desc, Clock)
    IN  /\ r.exc = "" => CanSample
        /\ heap' = [heap EXCEPT ![i] = r.reg]
        /\ now' = IF r.exc = "" THEN Clock ELSE now
        /\ UNCHANGED <<cache, frames, entered, raised>>

\* ts.add_reported_function(func_name), called directly
AddReportedFunction(i, func_name) ==
    /\ heap' = [heap EXCEPT ![i] = add_reported_function(@, func_name)]
    /\ UNCHANGED <<cache, frames, entered, raised, now>>

\* ts.add_func_deltas(func_name, deltas), called directly
AddFuncDeltas(i, func_name, deltas) ==
    /\ heap' = [heap EXCEPT ![i] = add_func_deltas(@, func_name, deltas)]
    /\ UNCHANGED <<cache, frames, entered, raised, now>>

\* ts.func_runtime(func_name): reads the registry only
FuncRuntime(i, func_name) ==
    \E r \in {func_runtime(heap[i], func_name)} : UNCHANGED vars

\* ts.difference(start, end, func_name): reads the registry only
Difference(i, start, end, func_name) ==
    \E r \in {difference(heap[i], start, end, func_name)} : UNCHANGED vars

\* ts.report(): reads the registry only (and prints)
Report(i) ==
    \E r \in ReportOutcomes(heap[i]) : UNCHANGED vars

\* A call of a function decorated with @report(stamp_name, deltas): lines
\* 221-226 of wrapper, up to the call of the wrapped function. Nothing
\* changes when get_instance raises (NoStampException) or returns None
\* (None.add_reported_function raises AttributeError).
WrapperCall(fname, stamp_name, deltas) ==
    LET g == get_instance(cache, stamp_name)
    IN  IF g.exc # "" \/ g.ret = None
        THEN UNCHANGED vars
        ELSE LET ts == g.ret.n
                 r1 == add_reported_function(heap[ts], fname)
                 r2 == enter_function(r1, fname, Clock)
                 r3 == IF deltas # <<>> THEN add_func_deltas(r2, fname, deltas) ELSE r2
             IN  /\ CanSample
                 /\ Len(frames) < MaxDepth
                 /\ heap' = [heap EXCEPT ![ts] = r3]
                 /\ now' = Clock
                 /\ entered' = [entered EXCEPT ![ts] = Append(@, fname)]
                 /\ frames' = Append(frames, [fname |-> fname, ts |-> ts,
                                              stack |-> heap[ts].func_stack])
                 /\ UNCHANGED <<cache, raised>>

\* The wrapped function of the innermost call returns: lines 228-229. When
\* exit_function raises, the exception leaves the wrapper.
WrapperReturn ==
    /\ frames # <<>>
    /\ LET top == frames[Len(frames)]
           r == exit_function(heap[top.ts], Clock)
       IN  /\ r.exc = "" => CanSample
           /\ heap' = [heap EXCEPT ![top.ts] = r.reg]
           /\ now' = IF r.exc = "" THEN Clock ELSE now
           /\ entered' = [entered EXCEPT ![top.ts] = ButLast(@)]
    /\ frames' = ButLast(frames)
    /\ UNCHANGED <<cache, raised>>

\* wrapper with `except: ts._func_stack.pop(); raise` around line 227: the
\* stack is unwound when the wrapped function raises
WrapperRaise_Unwinding ==
    /\ frames # <<>>
    /\ frames' = ButLast(frames)
    /\ heap' = [heap EXCEPT ![frames[Len(frames)].ts].func_stack = ButLast(@)]
    /\ raised' = [raised EXCEPT ![frames[Len(frames)].ts] =
                                     @ \cup {frames[Len(frames)].fname}]
    /\ UNCHANGED <<cache, entered, now>>

\* The wrapped function of the innermost call raises: line 227 propagates
\* the exception and lines 228-229 are not run
WrapperRaise ==
    /\ frames # <<>>
    /\ frames' = ButLast(frames)
    /\ raised' = [raised EXCEPT ![frames[Len(frames)].ts] =
                                     @ \cup {frames[Len(frames)].fname}]
    /\ UNCHANGED <<cache, heap, entered, now>>

\* The calls made with registry names NS, function names FS and
\* descriptions DS, by the decorated functions WS
Calls(NS, FS, DS, WS) ==
    \/ \E name \in NS : NewStamp(name)
    \/ \E name \in Names \cup {NoName} : GetInstance(name)
    \/ \E i \in Ids, f \in FS : EnterFunction(i, f)
    \/ \E i \in Ids : ExitFunction(i)
    \/ \E i \in Ids, d \in DS : DoStamp(i, d)
    \/ \E i \in Ids, f \in FS : FuncRuntime(i, f)
    \/ \E i \in Ids, f \in {NoName, "f"} : Difference(i, "start", "end", f)
    \/ \E i \in Ids : Report(i)
    \/ \E w \in WS : WrapperCall(w[1], w[2], w[3])
    \/ WrapperReturn
    \/ WrapperRaise

\* One registry, every function name and description
Next ==
    \/ Calls({"a"}, FuncNames, Descs, Decorated)
    \/ \E i \in Ids : AddReportedFunction(i, "g")
    \/ \E i \in Ids : AddFuncDeltas(i, "g", <<"start", "end">>)

Spec == Init /\ [][Next]_vars

\* A registry was created once at module level, as `ts = Stamp('test')` of
\* line 235 does, and the clock is MaxReads readings away from its last value
InitNesting ==
    /\ cache = Put(EmptyDict, "a", 1)
    /\ heap = <<StampInit("a")>>
    /\ frames = <<>>
    /\ entered = << <<>> >>
    /\ raised = << {} >>
    /\ now = MaxTime - MaxReads

\* Decorated functions calling each other and themselves, stamping in
\* their bodies and returning normally
NextNesting ==
    \/ \E w \in Decorated : WrapperCall(w[1], w[2], w[3])
    \/ WrapperReturn
    \/ \E i \in Ids, d \in StrDescs : DoStamp(i, d)

SpecNesting == InitNesting /\ [][NextNesting]_vars

\* No registry yet, and the clock is MaxRegistryReads readings away from
\* its last value
InitRegistries ==
    /\ cache = EmptyDict
    /\ heap = <<>>
    /\ frames = <<>>
    /\ entered = <<>>
    /\ raised = <<>>
    /\ now = MaxTime - MaxRegistryReads

\* Registries of every name, used directly and by the decorated functions
\* that name their registry
NextRegistries ==
    \/ Calls(Names, {"f"}, {"start"}, {w \in Decorated : w[2] # NoName})
    \/ \E i \in Ids : AddReportedFunction(i, "f")
    \/ \E i \in Ids : AddFuncDeltas(i, "f", <<"start">>)

SpecRegistries == InitRegistries /\ [][NextRegistries]_vars


----------------------------------------------------------------------------
\* Properties

Entries(tf) == Get(tf.time_stamps, EntryKey, <<>>)
Exits(tf) == Get(tf.time_stamps, ExitKey, <<>>)
Top(stack) == stack[Len(stack)]

IsPrefix(s, t) == Len(s) <= Len(t) /\ SubSeq(t, 1, Len(s)) = s

\* Every sample sequence of registry r is kept, possibly extended, in r2
Grows(r, r2) ==
    /\ \A k \in DOMAIN r.time_stamps :
          /\ k \in DOMAIN r2.time_stamps
          /\ IsPrefix(r.time_stamps[k], r2.time_stamps[k])
    /\ \A f \in DOMAIN r.func_time_stamps :
          /\ f \in DOMAIN r2.func_time_stamps
          /\ \A k \in DOMAIN r.func_time_stamps[f].time_stamps :
                /\ k \in DOMAIN r2.func_time_stamps[f].time_stamps
                /\ IsPrefix(r.func_time_stamps[f].time_stamps[k],
                            r2.func_time_stamps[f].time_stamps[k])

\* Registry i has only ever dealt with function f since its __init__
OnlyFunction(i, f) ==
    /\ \A k \in 1..Len(entered[i]) : entered[i][k] = f
    /\ DOMAIN heap[i].func_time_stamps \subseteq {f}

\* C1: get_instance(name) raises NoStampException while no registry named
\* name was created; once Stamp(name) was called, every later Stamp(name)
\* and get_instance(name) returns that same instance, and at most one
\* instance per name exists.
C1_SingletonIdentity ==
    /\ [](\A n \in Names :
            /\ n \notin DOMAIN cache =>
                  get_instance(cache, n).exc = "NoStampException"
            /\ n \in DOMAIN cache =>
                  get_instance(cache, n) = Outcome("", Instance(cache[n]))
            /\ Cardinality({i \in Ids : heap[i].name = n}) <= 1)
    /\ [][\A n \in DOMAIN cache : n \in DOMAIN cache' /\ cache'[n] = cache[n]]_vars

\* C2: a sample recorded in a registry is still there after any later
\* operation, Stamp(name) for the same name included: the sample sequences
\* of a registry only ever grow.
C2_SamplesOnlyGrow == [][\A i \in Ids : Grows(heap[i], heap'[i])]_vars

\* C3: for matched enter_function(f)/exit_function() calls on one function
\* f, one after another or nested, every exit that answers an enter
\* completes, and times_run of f counts the answered enters.
C3_MatchedRunsCounted ==
    \A i \in Ids, f \in FuncNames :
        OnlyFunction(i, f) =>
            /\ entered[i] # <<>> => exit_function(heap[i], Clock).exc = ""
            /\ f \in DOMAIN heap[i].func_time_stamps =>
                  times_run(heap[i].func_time_stamps[f]) + Len(entered[i])
                      = Len(Entries(heap[i].func_time_stamps[f]))

\* C4: when 'start' and 'end' were stamped equally often (at least once)
\* inside function f, difference('start', 'end', func_name=f) returns the
\* single-value form for one pair and the averaged form with the pair count
\* for several, never the empty result.
C4_DifferenceInsideFunction ==
    \A i \in Ids, f \in FuncNames \ {""} :
        f \in DOMAIN heap[i].func_time_stamps =>
            LET ts == heap[i].func_time_stamps[f].time_stamps
                n == Len(Get(ts, "start", <<>>))
                r == difference(heap[i], "start", "end", f)
            IN  (n >= 1 /\ n = Len(Get(ts, "end", <<>>))) =>
                    /\ r.kind = IF n = 1 THEN "REPORT_DIFF_VAL" ELSE "REPORT_DIFF_AVG"
                    /\ r.s = "start" /\ r.e = "end" /\ r.n = n

\* C5: exit_function() with an empty call stack returns without raising and
\* changes nothing.
C5_ExitOnEmptyStackIsNoOp ==
    \A i \in Ids :
        heap[i].func_stack = <<>> =>
            exit_function(heap[i], Clock) = [exc |-> "", reg |-> heap[i]]

\* C6: in every reachable state, stamp(desc) raises InvalidStampException
\* and changes nothing when desc is not a string, and for a string desc it
\* does not raise and adds exactly one sample, whatever the call stack holds.
C6_StampFailsOnlyOnNonString ==
    \A i \in Ids, d \in Descs :
        LET r == stamp(heap[i], d, Clock)
        IN  IF IsStr(d)
            THEN /\ r.exc = ""
                 /\ SampleCount(r.reg) = SampleCount(heap[i]) + 1
                 /\ Grows(heap[i], r.reg)
            ELSE r.exc = "InvalidStampException" /\ r.reg = heap[i]

\* A string was stamped while the call stack was not empty
C6_Witness ==
    \E i \in Ids :
        /\ heap[i].func_stack # <<>>
        /\ \E d \in StrDescs :
              d \in DOMAIN heap[i].func_time_stamps[Top(heap[i].func_stack)].time_stamps

\* C7: stamp(desc) adds its sample to the timeframe of the most recently
\* entered function that has not yet exited and changes nothing else; with
\* no such function it adds the sample to the registry-level mapping and
\* changes nothing else.
C7_StampGoesToInnermostActive ==
    \A i \in Ids, d \in StrDescs :
        stamp(heap[i], d, Clock).reg =
            IF entered[i] # <<>>
            THEN [heap[i] EXCEPT
                     !.func_time_stamps =
                         IF Top(entered[i]) \in DOMAIN @
                         THEN [@ EXCEPT ![Top(entered[i])] = TF_stamp(@, d, Clock)]
                         ELSE @]
            ELSE StampGlobal(heap[i], d, Clock)

\* C8: get_instance() without a name returns the registry when exactly one
\* exists and raises when none or several exist.
C8_GetInstanceWithoutName ==
    IF Cardinality(DOMAIN cache) = 1
    THEN get_instance(cache, NoName) =
             Outcome("", Instance(cache[CHOOSE n \in DOMAIN cache : TRUE]))
    ELSE get_instance(cache, NoName).exc # ""

\* C9: in every reachable state report() prints a report for every reported
\* function and does not raise, a function without any exit sample included.
C9_ReportNeverRaises ==
    \A i \in Ids :
        \A r \in ReportOutcomes(heap[i]) :
            r.exc = "" /\ r.ret.out = heap[i].reported_functions

\* C10: func_runtime(name) returns the 'not found' message when name has no
\* timeframe, the empty result when the entry and exit sequences differ in
\* length, the single-value form for exactly one entry/exit pair and the
\* averaged form with run count N for N > 1 pairs (a timeframe always holds
\* an entry); the forms name the function, except that the empty function
\* name gets the wording of the difference report without labels.
C10_FuncRuntimeByCounts ==
    \A i \in Ids, f \in FuncNames :
        LET r == func_runtime(heap[i], f)
        IN  IF f \notin DOMAIN heap[i].func_time_stamps
            THEN r.kind = "No function exists with this name..."
            ELSE LET tf == heap[i].func_time_stamps[f]
                     n == Len(Entries(tf))
                 IN  /\ n >= 1
                     /\ n # Len(Exits(tf)) => r = EmptyList
                     /\ (n = Len(Exits(tf)) /\ n = 1) =>
                           /\ r.kind = IF f # "" THEN "REPORT_FUNC_VAL" ELSE "REPORT_DIFF_VAL"
                           /\ r.who = f /\ r.n = 1
                           /\ r.num = Exits(tf)[1] - Entries(tf)[1]
                     /\ (n = Len(Exits(tf)) /\ n > 1) =>
                           /\ r.kind = IF f # "" THEN "REPORT_FUNC_AVG" ELSE "REPORT_DIFF_AVG"
                           /\ r.who = f /\ r.n = n

\* A function has run twice: two entry and two exit samples
C10_Witness ==
    \E i \in Ids, f \in FuncNames :
        /\ f \in DOMAIN heap[i].func_time_stamps
        /\ Len(Entries(heap[i].func_time_stamps[f])) = 2
        /\ Len(Exits(heap[i].func_time_stamps[f])) = 2

\* C11: difference(start, end) returns the empty result when neither label
\* was ever stamped at registry level, and whenever the two labels hold
\* different numbers of samples; it returns a value and raises nothing, and
\* the registry is only read.
C11_DifferenceEmptyOnMismatch ==
    \A i \in Ids, s \in Descs, e \in Descs :
        LET start_times == Get(heap[i].time_stamps, <<s>>, <<>>)
            end_times == Get(heap[i].time_stamps, <<e>>, <<>>)
        IN  (\/ start_times = <<>> /\ end_times = <<>>
             \/ Len(start_times) # Len(end_times)) =>
                difference(heap[i], s, e, NoName) = EmptyList

\* 'start' was stamped twice and 'end' once at registry level
C11_Witness ==
    \E i \in Ids :
        /\ Len(Get(heap[i].time_stamps, <<"start">>, <<>>)) = 2
        /\ Len(Get(heap[i].time_stamps, <<"end">>, <<>>)) = 1

\* The durations of the runs of a timeframe: i-th exit minus i-th entry
Durations(tf) == [k \in 1..Len(Exits(tf)) |-> Exits(tf)[k] - Entries(tf)[k]]

\* C12: for a timeframe with the same number n >= 1 of entry and exit
\* samples, average_runtime is the mean of the per-run durations:
\* n * average_runtime is the sum of (i-th exit - i-th entry); for n > 1 it
\* is the average that runtime() reports.
C12_AverageIsMeanOfRuns ==
    \A i \in Ids :
        \A f \in DOMAIN heap[i].func_time_stamps :
            LET tf == heap[i].func_time_stamps[f]
                n == Len(Entries(tf))
                avg == average_runtime(tf)
            IN  (n >= 1 /\ n = Len(Exits(tf))) =>
                    /\ avg.exc = ""
                    /\ avg.ret.n = n
                    /\ avg.ret.num = SumSeq(Durations(tf))
                    /\ n > 1 => /\ runtime(tf).n = avg.ret.n
                                /\ runtime(tf).num = avg.ret.num

\* A function ran twice, one run after the other, and its average is asked
C12_Witness ==
    \E i \in Ids :
        \E f \in DOMAIN heap[i].func_time_stamps :
            LET tf == heap[i].func_time_stamps[f]
            IN  /\ Len(Durations(tf)) = 2
                /\ Len(Entries(tf)) = 2
                /\ Entries(tf)[2] > Exits(tf)[1]
                /\ average_runtime(tf).ret.num > 0

\* C16: enter_function(f) pushes f only when f differs from the top of the
\* call stack and always appends one entry sample (key 0) to f's timeframe;
\* in every reachable state the call stack holds no name in two adjacent
\* positions.
C16_NoAdjacentDuplicates ==
    \A i \in Ids :
        LET stack == heap[i].func_stack
        IN  /\ \A k \in 1..(Len(stack) - 1) : stack[k] # stack[k + 1]
            /\ \A f \in FuncNames :
                  LET r == enter_function(heap[i], f, Clock)
                      old == Get(heap[i].func_time_stamps, f, FunctionTimeFrame(f))
                  IN  /\ r.func_stack = IF stack # <<>> /\ Top(stack) = f
                                        THEN stack
                                        ELSE Append(stack, f)
                      /\ Entries(r.func_time_stamps[f]) = Append(Entries(old), Clock)

\* enter_function(f) was called twice in a row: one f on the stack, two
\* entry samples
C16_Witness ==
    \E i \in Ids, f \in FuncNames :
        /\ Len(entered[i]) >= 2
        /\ entered[i][Len(entered[i])] = f
        /\ entered[i][Len(entered[i]) - 1] = f
        /\ heap[i].func_stack # <<>>
        /\ Top(heap[i].func_stack) = f
        /\ Len(Entries(heap[i].func_time_stamps[f])) >= 2

\* C17: in every reachable state every name on the call stack has a
\* timeframe, and no timeframe holds more exit samples (key -1) than entry
\* samples (key 0).
C17_StackNamesHaveTimeframes ==
    \A i \in Ids :
        /\ \A k \in 1..Len(heap[i].func_stack) :
              heap[i].func_stack[k] \in DOMAIN heap[i].func_time_stamps
        /\ \A f \in DOMAIN heap[i].func_time_stamps :
              Len(Exits(heap[i].func_time_stamps[f]))
                  <= Len(Entries(heap[i].func_time_stamps[f]))

\* One function has exited and another one is on the call stack
C17_Witness ==
    \E i \in Ids :
        /\ heap[i].func_stack # <<>>
        /\ \E f \in DOMAIN heap[i].func_time_stamps :
              /\ f # Top(heap[i].func_stack)
              /\ Len(Exits(heap[i].func_time_stamps[f])) >= 1

\* The innermost decorated call returns normally: its frame ends and
\* exit_function has read the clock
NormalReturn == frames # <<>> /\ frames' = ButLast(frames) /\ now' = Clock

\* C13: after a decorated call returns normally, the call stack of its
\* registry has exactly the content it had just before that call, for any
\* nesting of decorated calls, recursion included.
C13_StackRestoredOnReturn ==
    [][NormalReturn =>
          heap'[Top(frames).ts].func_stack = Top(frames).stack]_vars

\* C14: the exit sample recorded when a decorated call of g returns is
\* appended to g's own timeframe and no other timeframe changes, for any
\* nesting of decorated calls.
C14_ExitSampleOnOwnTimeframe ==
    [][NormalReturn =>
          LET g == Top(frames).fname
              before == heap[Top(frames).ts].func_time_stamps
              after == heap'[Top(frames).ts].func_time_stamps
          IN  /\ g \in DOMAIN before
              /\ Exits(after[g]) = Append(Exits(before[g]), Clock)
              /\ \A h \in DOMAIN before \ {g} : after[h] = before[h]]_vars

\* Nothing runs on registry i but calls that raised: no decorated call is
\* active and every unanswered enter_function belongs to a call that raised
Outside(i) ==
    /\ frames = <<>>
    /\ \A k \in 1..Len(entered[i]) : entered[i][k] \in raised[i]

\* C15 as stated: once a decorated call of f has raised, f stays on the call
\* stack and keeps more entry than exit samples from then on, and stamp()
\* calls made outside any function are attached to f's timeframe.
C15_RaiseLeavesFunctionOpen ==
    \A i \in Ids :
        \A f \in raised[i] :
            /\ f \in DOMAIN heap[i].func_time_stamps
            /\ \E k \in 1..Len(heap[i].func_stack) : heap[i].func_stack[k] = f
            /\ Len(Entries(heap[i].func_time_stamps[f]))
                  > Len(Exits(heap[i].func_time_stamps[f]))
            /\ Outside(i) =>
                  \A d \in StrDescs :
                      stamp(heap[i], d, Clock).reg =
                          [heap[i] EXCEPT !.func_time_stamps[f] = TF_stamp(@, d, Clock)]

\* The wrapped function of the innermost call raises
RaiseStep ==
    /\ frames # <<>>
    /\ frames' = ButLast(frames)
    /\ raised' = [raised EXCEPT ![Top(frames).ts] = @ \cup {Top(frames).fname}]
    /\ entered' = entered
    /\ now' = now

\* C15 (amended): when the wrapped function raises, no exit bookkeeping is
\* done: the registry is left as the wrapped function left it (the entry
\* sample stays, no exit sample is added, nothing is popped). For a function
\* of which a call raised: while its name is on the call stack it has more
\* entry than exit samples, and while its name is the top of the stack
\* stamp() attaches the sample to its timeframe.
C15_RaiseSkipsExitBookkeeping ==
    /\ [][RaiseStep => heap' = heap /\ cache' = cache]_vars
    /\ [](\A i \in Ids :
            \A f \in raised[i] :
                LET stack == heap[i].func_stack
                IN  /\ (\E k \in 1..Len(stack) : stack[k] = f) =>
                          /\ f \in DOMAIN heap[i].func_time_stamps
                          /\ Len(Entries(heap[i].func_time_stamps[f]))
                                > Len(Exits(heap[i].func_time_stamps[f]))
                    /\ (stack # <<>> /\ Top(stack) = f) =>
                          \A d \in StrDescs :
                              stamp(heap[i], d, Clock).reg =
                                  [heap[i] EXCEPT
                                      !.func_time_stamps[f] = TF_stamp(@, d, Clock)])

\* A decorated call raised and left its name on top of the call stack with
\* no exit sample, and no decorated call is active
C15_Witness ==
    \E i \in Ids :
        \E f \in raised[i] :
            /\ frames = <<>>
            /\ heap[i].func_stack # <<>>
            /\ Top(heap[i].func_stack) = f
            /\ Exits(heap[i].func_time_stamps[f]) = <<>>

\* The registry name given to the decorator of function fname
StampNameOf(fname) == (CHOOSE w \in Decorated : w[1] = fname)[2]

\* C18: registries with different names are isolated. A step changes at most
\* one registry; creating a registry with a new name changes no existing
\* one; the calls a decorated function makes on entry and on return change
\* only the registry its decorator names.
C18_RegistriesIsolated ==
    [][/\ \A i \in Ids, j \in Ids :
              (i # j /\ heap'[i] # heap[i]) => heap'[j] = heap[j]
       /\ Len(heap') > Len(heap) => \A i \in Ids : heap'[i] = heap[i]
       /\ Len(frames') > Len(frames) =>
              \A j \in Ids :
                  heap[j].name # StampNameOf(Top(frames').fname) =>
                      heap'[j] = heap[j]
       /\ Len(frames') < Len(frames) =>
              \A j \in Ids :
                  heap[j].name # StampNameOf(Top(frames).fname) =>
                      heap'[j] = heap[j]]_vars

\* Two registries exist, one was used directly and holds samples while a
\* decorated function runs on the other one
C18_Witness ==
    \E i \in Ids, j \in Ids :
        /\ i # j
        /\ heap[i].func_time_stamps # EmptyDict
        /\ heap[i].time_stamps # EmptyDict
        /\ frames # <<>>
        /\ Top(frames).ts = j
        /\ heap[j].func_stack # <<>>

====
